---- MODULE Spec2Model ----
(***************************************************************************)
(* Uniform-grid spatial index of robinei/spacerust                         *)
(* (src/src/spatial_index.rs) and the Update schedule that drives it       *)
(* (src/src/main.rs).                                                      *)
(*                                                                         *)
(* Numbers.  A coordinate of a Vec3 is an f32.  It is written here as a    *)
(* pair <<b, o>> that stands for the value b * CELL_DIM + o, so that a     *)
(* coordinate whose cell index lies at the edge of the i32 range can be    *)
(* written although the value itself is beyond 32 bits.  The coordinates   *)
(* and radii used are whole numbers for which the f32 quotients by         *)
(* CELL_DIM, their sums and square roots have the same floor and ceil as   *)
(* the exact values, so the arithmetic below is exact integer arithmetic   *)
(* on values scaled by CELL_DIM.                                           *)
(* Only x and z are modelled: y takes no part in calc_cell or in           *)
(* query_cells, and it is 0 for every spawned and every moved agent.       *)
(***************************************************************************)
EXTENDS Integers, Sequences, FiniteSets, TLC

VARIABLES
    alive,        \* entities that carry CellAssociation + Transform (spawn_ship)
    translation,  \* entity -> Transform.translation (x, z)
    assoc,        \* entity -> CellAssociation [cell, new_cell]
    dirty,        \* entities that carry the HasDirtyCell marker component
    cmds,         \* deferred Commands queued by systems, not yet applied
    cells,        \* SpatialIndex.cells : HashMap<Cell, Vec<Entity>>
    ran,          \* nodes of the Update schedule that have run in this tick
    missed,       \* pairs <<a, b>>: b within BOID_RADIUS of a, not visited
    fresh,        \* entities no detection pass has iterated over yet
    last,         \* record of the operation that produced this state
    prev,         \* record of the operation before it
    qpos,         \* argument of a direct query_cells call
    qrad,         \* argument of a direct query_cells call
    emitted,      \* cells handed to the visitor by that call, in order
    boid          \* the Boid accumulator of one calc_acceleration iteration

vars == <<alive, translation, assoc, dirty, cmds, cells, ran, missed, fresh,
          last, prev, qpos, qrad, emitted, boid>>

----------------------------------------------------------------------------
(* Program constants *)

CELL_DIM == 20
BOID_RADIUS == 20
TEST_RADIUS == 5
I32_MAX == 2147483647
I32_MIN == -2147483647 - 1

(* Bounds of the model *)

NumEntities == 2
MaxBucket == 2

----------------------------------------------------------------------------
(* f32 coordinates *)

\* the coordinate with value x (a whole number of world units)
At(x) == <<0, x>>

\* value of a coordinate in world units (coordinates near the origin only)
Val(c) == c[1] * CELL_DIM + c[2]

\* (c / CELL_DIM).floor()
FloorDivCell(c) == c[1] + (c[2] \div CELL_DIM)

\* `as i32` on a float: saturating
AsI32(v) == IF v < I32_MIN THEN I32_MIN ELSE IF v > I32_MAX THEN I32_MAX ELSE v

Pos(x, z) == <<At(x), At(z)>>

\* the position (-42949672960.0, 0.0, -42949672960.0), i.e. -2^31 * CELL_DIM
FarPos == << <<I32_MIN, 0>>, <<I32_MIN, 0>> >>

calc_cell(pos) == <<AsI32(FloorDivCell(pos[1])), AsI32(FloorDivCell(pos[2]))>>

\* CellAssociation::new(): both fields hold (i32::MIN, i32::MIN)
Unassigned == <<I32_MIN, I32_MIN>>

CellAssociation_new == [cell |-> Unassigned, new_cell |-> Unassigned]

----------------------------------------------------------------------------
(* query_cells *)

FloorDiv(a, b) == a \div b
CeilDiv(a, b) == -((-a) \div b)

\* ceil(sqrt(d)) for d >= 0
CeilSqrt(d) == CHOOSE s \in 0..d : s * s >= d /\ (s = 0 \/ (s - 1) * (s - 1) < d)

\* the z rows: minz = floor(cz - r), maxz = ceil(cz + r) - 1
QMinZ(pos, radius) == FloorDiv(Val(pos[2]) - radius, CELL_DIM)
QMaxZ(pos, radius) == CeilDiv(Val(pos[2]) + radius, CELL_DIM) - 1

\* ztest * CELL_DIM : the row boundary nearest to cz, or cz itself
QZTest(pos, z) ==
    LET pz == Val(pos[2]) IN
    IF (z + 1) * CELL_DIM < pz THEN (z + 1) * CELL_DIM
    ELSE IF z * CELL_DIM > pz THEN z * CELL_DIM
    ELSE pz

\* (r*r - zdist2) * CELL_DIM^2
QDisc(pos, radius, z) ==
    LET zd == QZTest(pos, z) - Val(pos[2]) IN radius * radius - zd * zd

\* minx = floor(cx - xdiff); sqrt of a negative number is NaN, and
\* NaN.floor() as i32 = 0
QMinX(pos, radius, z) ==
    LET d == QDisc(pos, radius, z) IN
    IF d < 0 THEN 0 ELSE FloorDiv(Val(pos[1]) - CeilSqrt(d), CELL_DIM)

\* maxx = ceil(cx + xdiff) - 1
QMaxX(pos, radius, z) ==
    LET d == QDisc(pos, radius, z) IN
    IF d < 0 THEN 0 - 1 ELSE CeilDiv(Val(pos[1]) + CeilSqrt(d), CELL_DIM) - 1

\* for x in minx..=maxx { handler((x, z)) }
QRow(pos, radius, z) ==
    LET minx == QMinX(pos, radius, z)
        maxx == QMaxX(pos, radius, z)
    IN  [i \in 1..(maxx - minx + 1) |-> <<minx + i - 1, z>>]

RECURSIVE QRows(_, _, _, _)
QRows(pos, radius, z, maxz) ==
    IF z > maxz THEN <<>>
    ELSE QRow(pos, radius, z) \o QRows(pos, radius, z + 1, maxz)

\* the sequence of cells the handler is called with
query_cells(pos, radius) ==
    QRows(pos, radius, QMinZ(pos, radius), QMaxZ(pos, radius))

----------------------------------------------------------------------------
(* SpatialIndex *)

EmptyIndex == [c \in {} |-> <<>>]

Range(f) == {f[i] : i \in DOMAIN f}

\* insert that overwrites the bucket instead of pushing onto it
insert_overwrite(idx, cell, entity) ==
    [c \in DOMAIN idx \cup {cell} |-> IF c = cell THEN <<entity>> ELSE idx[c]]

\* self.cells.entry(cell).or_insert_with(Vec::new).push(entity)
insert(idx, cell, entity) ==
    IF cell \in DOMAIN idx
    THEN [idx EXCEPT ![cell] = Append(@, entity)]
    ELSE [c \in DOMAIN idx \cup {cell} |-> IF c = cell THEN <<entity>> ELSE idx[c]]

\* remove that leaves the emptied vector in the map
remove_keep_empty(idx, cell, entity) ==
    IF cell \notin DOMAIN idx THEN idx
    ELSE [idx EXCEPT ![cell] = SelectSeq(@, LAMBDA e : e # entity)]

\* remove with the retain predicate inverted
remove_retain_inverted(idx, cell, entity) ==
    IF cell \notin DOMAIN idx THEN idx
    ELSE LET vec == SelectSeq(idx[cell], LAMBDA e : e = entity) IN
         IF Len(vec) = 0
         THEN [c \in DOMAIN idx \ {cell} |-> idx[c]]
         ELSE [idx EXCEPT ![cell] = vec]

\* remove that does nothing
remove_skipped(idx, cell, entity) == idx

\* retain every element that differs from entity; drop the entry when the
\* vector is left empty; nothing to do when the entry is vacant
remove(idx, cell, entity) ==
    IF cell \notin DOMAIN idx THEN idx
    ELSE LET vec == SelectSeq(idx[cell], LAMBDA e : e # entity) IN
         IF Len(vec) = 0
         THEN [c \in DOMAIN idx \ {cell} |-> idx[c]]
         ELSE [idx EXCEPT ![cell] = vec]

\* query that hands over only the first entity of each bucket
RECURSIVE QueryVisit_first_only(_, _, _)
QueryVisit_first_only(idx, cs, i) ==
    IF i > Len(cs) THEN <<>>
    ELSE (IF cs[i] \in DOMAIN idx THEN <<Head(idx[cs[i]])>> ELSE <<>>)
         \o QueryVisit_first_only(idx, cs, i + 1)

\* for each emitted cell, in order, every entity of its bucket, in order
RECURSIVE QueryVisit(_, _, _)
QueryVisit(idx, cs, i) ==
    IF i > Len(cs) THEN <<>>
    ELSE (IF cs[i] \in DOMAIN idx THEN idx[cs[i]] ELSE <<>>)
         \o QueryVisit(idx, cs, i + 1)

\* the sequence of entities the handler is called with
query(idx, pos, radius) == QueryVisit(idx, query_cells(pos, radius), 1)

----------------------------------------------------------------------------
(* Deferred commands and the two membership systems *)

\* a sync point applies the queued commands in order:
\* <<"insert", e>> is commands.entity(e).insert(HasDirtyCell),
\* <<"remove", e>> is commands.entity(e).remove::<HasDirtyCell>()
RECURSIVE ApplyCommands(_, _)
ApplyCommands(dy, cs) ==
    IF cs = <<>> THEN dy
    ELSE ApplyCommands(IF Head(cs)[1] = "insert" THEN dy \cup {Head(cs)[2]}
                       ELSE dy \ {Head(cs)[2]}, Tail(cs))

\* the elements of a set of entities in ascending order
RECURSIVE Ascending(_)
Ascending(S) ==
    IF S = {} THEN <<>>
    ELSE LET m == CHOOSE x \in S : \A y \in S : x <= y
         IN  <<m>> \o Ascending(S \ {m})

\* every order in which a query may iterate over a set of entities
Orders(S) ==
    {f \in [1..Cardinality(S) -> S] : \A i, j \in DOMAIN f : f[i] = f[j] => i = j}

\* detection pass that recomputes new_cell for the flagged entities too
update_cell_association_recomputes(al, tr, as, dy) ==
    LET as2 == [e \in al |-> [as[e] EXCEPT !.new_cell = calc_cell(tr[e])]]
        marked == {e \in al \ dy : as2[e].new_cell # as2[e].cell}
    IN  [assoc |-> as2,
         cmds  |-> [i \in 1..Cardinality(marked) |-> <<"insert", Ascending(marked)[i]>>]]

\* detection pass that stores new_cell and never queues the marker
update_cell_association_no_marker(al, tr, as, dy) ==
    [assoc |-> [e \in al |-> IF e \in dy THEN as[e]
                             ELSE [as[e] EXCEPT !.new_cell = calc_cell(tr[e])]],
     cmds  |-> <<>>]

\* update_cell_association: over the entities Without<HasDirtyCell>, store
\* the cell of the translation in new_cell and queue the marker for those
\* whose new_cell differs from cell
update_cell_association(al, tr, as, dy) ==
    LET as2 == [e \in al |-> IF e \in dy THEN as[e]
                             ELSE [as[e] EXCEPT !.new_cell = calc_cell(tr[e])]]
        marked == {e \in al \ dy : as2[e].new_cell # as2[e].cell}
    IN  [assoc |-> as2,
         cmds  |-> [i \in 1..Cardinality(marked) |-> <<"insert", Ascending(marked)[i]>>]]

RECURSIVE CommitLoop(_, _, _)
CommitLoop(order, i, st) ==
    IF i > Len(order) THEN st
    ELSE LET e  == order[i]
             i1 == remove(st.cells, st.assoc[e].cell, e)
             i2 == insert(i1, st.assoc[e].new_cell, e)
         IN  CommitLoop(order, i + 1,
                 [assoc |-> [st.assoc EXCEPT ![e].cell = st.assoc[e].new_cell],
                  cells |-> i2,
                  cmds  |-> Append(st.cmds, <<"remove", e>>),
                  nops  |-> st.nops + 2])

\* commit pass that forgets to queue the removal of the marker
update_spatial_index_keeps_marker(order, as, idx) ==
    [CommitLoop(order, 1, [assoc |-> as, cells |-> idx, cmds |-> <<>>, nops |-> 0])
        EXCEPT !.cmds = <<>>]

\* commit pass that iterates over every entity that has a CellAssociation
update_spatial_index_all(order, as, idx) ==
    CommitLoop(Ascending(DOMAIN as), 1,
               [assoc |-> as, cells |-> idx, cmds |-> <<>>, nops |-> 0])

\* update_spatial_index: over the entities With<HasDirtyCell>, in the order
\* the query yields them; nops counts the remove and insert calls made
update_spatial_index(order, as, idx) ==
    CommitLoop(order, 1, [assoc |-> as, cells |-> idx, cmds |-> <<>>, nops |-> 0])

----------------------------------------------------------------------------
(* Vectors.  A Vec3 restricted to the plane is [n |-> <<x, z>>, d |-> k],   *)
(* the vector (x / k, z / k) with k > 0, kept in lowest terms.  Lengths are *)
(* exact: the inputs are chosen so that every length taken is rational.     *)

Abs(a) == IF a < 0 THEN -a ELSE a

RECURSIVE Gcd(_, _)
Gcd(a, b) == IF b = 0 THEN a ELSE Gcd(b, a % b)

RV(n, d) ==
    LET g == Gcd(Gcd(Abs(n[1]), Abs(n[2])), d)
    IN  [n |-> <<n[1] \div g, n[2] \div g>>, d |-> d \div g]

Vec(x, z) == [n |-> <<x, z>>, d |-> 1]

ZERO == Vec(0, 0)

VAdd(a, b) ==
    RV(<<a.n[1] * b.d + b.n[1] * a.d, a.n[2] * b.d + b.n[2] * a.d>>, a.d * b.d)

VSub(a, b) ==
    RV(<<a.n[1] * b.d - b.n[1] * a.d, a.n[2] * b.d - b.n[2] * a.d>>, a.d * b.d)

\* v * k and v / k for a whole number k > 0
VMul(a, k) == RV(<<a.n[1] * k, a.n[2] * k>>, a.d)
VDiv(a, k) == RV(a.n, a.d * k)

Norm2(n) == n[1] * n[1] + n[2] * n[2]

\* the length of a whole-number vector
Norm(n) == CHOOSE s \in 0..(Abs(n[1]) + Abs(n[2])) : s * s = Norm2(n)

\* v.length() > k and v.length() < 1 / k, for whole numbers k (a vector that
\* is not zero and has d <= k is at least 1 / k long)
LengthAbove(a, k) == Norm2(a.n) > k * k * a.d * a.d
LengthBelowOneOver(a, k) ==
    \/ Norm2(a.n) = 0
    \/ a.d > k /\ Norm2(a.n) * k * k < a.d * a.d

\* v.normalize(), for a vector that is not zero
normalize(a) == RV(a.n, Norm(a.n))

----------------------------------------------------------------------------
(* Boid: the neighbour accumulator and the steering arithmetic *)

\* spawn_ship: max_velocity: 10.0, max_force: 1.0
MAX_VELOCITY == 10
MAX_FORCE == 1

\* the thresholds of add_other: dist < 10.0, dist < 20.0, dist < 20.0 and
\* dist < 0.001
SEP_DIST == 10
ALIGN_DIST == 20
COHESION_DIST == 20
INV_EPSILON == 1000

\* steer's guard len < 0.000001
INV_STEER_EPSILON == 1000000

\* limit(v, len)
limit(v, len) ==
    IF LengthAbove(v, len) THEN VMul(normalize(v), len) ELSE v

\* Boid::new; log records the candidates handed to the visitor
Boid_new(entity, position, velocity) ==
    [entity |-> entity, translation |-> position, velocity |-> velocity,
     sep_sum |-> ZERO, sep_count |-> 0,
     align_sum |-> ZERO, align_count |-> 0,
     cohesion_sum |-> ZERO, cohesion_count |-> 0,
     acceleration |-> ZERO, target |-> ZERO, stage |-> "scan", log |-> <<>>]

NoBoid == [Boid_new(0, ZERO, ZERO) EXCEPT !.stage = "none"]

\* v.length() < k, for a whole number k
LengthBelow(a, k) == Norm2(a.n) < k * k * a.d * a.d

\* add_other whose separation test uses the alignment threshold
add_other_wide_separation(b, position, velocity) ==
    LET delta == VSub(b.translation, position)
        dist2 == Norm2(delta.n)
    IN  IF LengthAbove(delta, BOID_RADIUS) \/ LengthBelowOneOver(delta, INV_EPSILON)
        THEN b
        ELSE LET b1 == IF LengthBelow(delta, ALIGN_DIST)
                       THEN [b EXCEPT !.sep_sum = VAdd(@, VDiv(delta, dist2)),
                                      !.sep_count = @ + 1]
                       ELSE b
                 b2 == IF LengthBelow(delta, ALIGN_DIST)
                       THEN [b1 EXCEPT !.align_sum = VAdd(@, velocity),
                                       !.align_count = @ + 1]
                       ELSE b1
             IN  IF LengthBelow(delta, COHESION_DIST)
                 THEN [b2 EXCEPT !.cohesion_sum = VAdd(@, position),
                                 !.cohesion_count = @ + 1]
                 ELSE b2

\* Boid::add_other.  delta.normalize() / dist is delta / dist^2; the
\* positions are whole numbers, so dist^2 = Norm2(delta.n)
add_other(b, position, velocity) ==
    LET delta == VSub(b.translation, position)
        dist2 == Norm2(delta.n)
    IN  IF LengthAbove(delta, BOID_RADIUS) \/ LengthBelowOneOver(delta, INV_EPSILON)
        THEN b
        ELSE LET b1 == IF LengthBelow(delta, SEP_DIST)
                       THEN [b EXCEPT !.sep_sum = VAdd(@, VDiv(delta, dist2)),
                                      !.sep_count = @ + 1]
                       ELSE b
                 b2 == IF LengthBelow(delta, ALIGN_DIST)
                       THEN [b1 EXCEPT !.align_sum = VAdd(@, velocity),
                                       !.align_count = @ + 1]
                       ELSE b1
             IN  IF LengthBelow(delta, COHESION_DIST)
                 THEN [b2 EXCEPT !.cohesion_sum = VAdd(@, position),
                                 !.cohesion_count = @ + 1]
                 ELSE b2

\* Boid::steer
steer(b, dir) ==
    IF LengthBelowOneOver(dir, INV_STEER_EPSILON) THEN ZERO
    ELSE limit(VSub(VMul(normalize(dir), MAX_VELOCITY), b.velocity), MAX_FORCE)

\* Boid::seek
seek(b, target) == steer(b, VSub(target, b.translation))

\* Boid::get_acceleration
get_acceleration(b) ==
    LET s1 == IF b.sep_count > 0
              THEN steer(b, VDiv(b.sep_sum, b.sep_count)) ELSE ZERO
        s2 == IF b.align_count > 0
              THEN VAdd(s1, steer(b, VDiv(b.align_sum, b.align_count))) ELSE s1
    IN  IF b.cohesion_count > 0
        THEN VAdd(s2, seek(b, VDiv(b.cohesion_sum, b.cohesion_count))) ELSE s2

\* the closure calc_acceleration hands to index.query
visit_neighbour(b, entity2, position, velocity) ==
    IF b.entity # entity2 THEN add_other(b, position, velocity) ELSE b

\* the acceleration without the steering toward the cursor
acceleration_without_seek(b, cursor) == get_acceleration(b)

\* acc.acceleration = boid.get_acceleration()
\*                    + boid.steer(cursor.position - trans1.translation)
acceleration_of(b, cursor) ==
    VAdd(get_acceleration(b), steer(b, VSub(cursor, b.translation)))

----------------------------------------------------------------------------
(* Records of the last operations (history, for stating the properties) *)

NoOp == [op |-> "none", cell |-> Unassigned, agent |-> 0, pre |-> EmptyIndex,
         nops |-> 0, visits |-> <<>>, first |-> {}]

\* no direct query is on record
NoQuery == qpos = <<At(0), At(0)>> /\ qrad = 0 /\ emitted = <<>>

ResetQuery == qpos' = <<At(0), At(0)>> /\ qrad' = 0 /\ emitted' = <<>>

----------------------------------------------------------------------------
(* Direct calls of query_cells *)

QueryCoords == {-20, -5, 0, 5, 10, 20, 25}
QueryPositions == {Pos(x, z) : x \in QueryCoords, z \in QueryCoords}
QueryRadii == {-5, 0, 5, 10, 12, 20}

Idle ==
    /\ alive = {} /\ translation = <<>> /\ assoc = <<>> /\ dirty = {}
    /\ cmds = <<>> /\ cells = EmptyIndex /\ ran = {} /\ missed = {}
    /\ fresh = {} /\ prev = NoOp /\ boid = NoBoid

InitQuery ==
    /\ Idle
    /\ last = NoOp
    /\ qpos \in QueryPositions
    /\ qrad \in QueryRadii
    /\ emitted = <<>>

QueryCells ==
    /\ last.op = "none"
    /\ emitted' = query_cells(qpos, qrad)
    /\ last' = [NoOp EXCEPT !.op = "query_cells"]
    /\ UNCHANGED <<boid, alive, translation, assoc, dirty, cmds, cells, ran, missed,
                   fresh, prev, qpos, qrad>>

NextArguments ==
    /\ last.op = "query_cells"
    /\ qpos' \in QueryPositions
    /\ qrad' \in QueryRadii
    /\ emitted' = <<>>
    /\ last' = NoOp
    /\ UNCHANGED <<boid, alive, translation, assoc, dirty, cmds, cells, ran, missed,
                   fresh, prev>>

NextQuery == QueryCells \/ NextArguments

SpecQuery == InitQuery /\ [][NextQuery]_vars

----------------------------------------------------------------------------
(* Geometry of a cell against a query disc *)

\* distance along one axis from p to the half-open interval
\* [c * CELL_DIM, (c + 1) * CELL_DIM); the upper end is not part of it
AxisGap(p, c) ==
    IF p < c * CELL_DIM THEN c * CELL_DIM - p
    ELSE IF p >= (c + 1) * CELL_DIM THEN p - (c + 1) * CELL_DIM
    ELSE 0

\* the gap is approached but not attained
AxisOpen(p, c) == p >= (c + 1) * CELL_DIM

\* the square of cell holds a point at distance <= radius from pos
CellMeetsDisc(cell, pos, radius) ==
    LET px == Val(pos[1])
        pz == Val(pos[2])
        g2 == AxisGap(px, cell[1]) * AxisGap(px, cell[1])
              + AxisGap(pz, cell[2]) * AxisGap(pz, cell[2])
    IN  IF AxisOpen(px, cell[1]) \/ AxisOpen(pz, cell[2])
        THEN g2 < radius * radius
        ELSE g2 <= radius * radius

\* the square of cell holds a point at distance < radius from pos
CellMeetsOpenDisc(cell, pos, radius) ==
    LET px == Val(pos[1])
        pz == Val(pos[2])
    IN  AxisGap(px, cell[1]) * AxisGap(px, cell[1])
        + AxisGap(pz, cell[2]) * AxisGap(pz, cell[2]) < radius * radius

\* the cells around pos that a disc of that radius could reach, and a margin
CellWindow(pos, radius) ==
    LET c == calc_cell(pos)
        k == CeilDiv(IF radius < 0 THEN -radius ELSE radius, CELL_DIM) + 1
    IN  {<<x, z>> : x \in (c[1] - k)..(c[1] + k), z \in (c[2] - k)..(c[2] + k)}

\* C3: for every position and every radius > 0, query_cells hands the visitor
\* every cell whose square holds a point at distance <= radius from the
\* position, cells touched only at a point on a cell boundary included.
C3_NoCellOmitted ==
    (last.op = "query_cells" /\ qrad > 0) =>
        \A cell \in CellWindow(qpos, qrad) :
            CellMeetsDisc(cell, qpos, qrad) => cell \in Range(emitted)

\* what the code does guarantee: no cell that holds a point at distance
\* < radius is omitted
OpenDiscCovered ==
    (last.op = "query_cells" /\ qrad > 0) =>
        \A cell \in CellWindow(qpos, qrad) :
            CellMeetsOpenDisc(cell, qpos, qrad) => cell \in Range(emitted)

----------------------------------------------------------------------------
(* Direct calls of insert and remove, in any order *)

Entities == 1..NumEntities

IndexCells == {<<0, 0>>, <<1, 0>>}

InitIndex ==
    /\ Idle
    /\ last = NoOp
    /\ NoQuery

Insert(cell, entity) ==
    /\ cell \in DOMAIN cells => Len(cells[cell]) < MaxBucket
    /\ cells' = insert(cells, cell, entity)
    /\ last' = [NoOp EXCEPT !.op = "insert", !.cell = cell, !.agent = entity,
                            !.pre = cells]
    /\ prev' = last
    /\ UNCHANGED <<boid, alive, translation, assoc, dirty, cmds, ran, missed, fresh,
                   qpos, qrad, emitted>>

Remove(cell, entity) ==
    /\ cells' = remove(cells, cell, entity)
    /\ last' = [NoOp EXCEPT !.op = "remove", !.cell = cell, !.agent = entity,
                            !.pre = cells]
    /\ prev' = last
    /\ UNCHANGED <<boid, alive, translation, assoc, dirty, cmds, ran, missed, fresh,
                   qpos, qrad, emitted>>

NextIndex ==
    \/ \E cell \in IndexCells, entity \in Entities : Insert(cell, entity)
    \/ \E cell \in IndexCells, entity \in Entities : Remove(cell, entity)

SpecIndex == InitIndex /\ [][NextIndex]_vars

\* entity is stored in the bucket of cell
Stored(idx, cell, entity) == cell \in DOMAIN idx /\ entity \in Range(idx[cell])

\* the last two operations were insert(c, a) and then remove(c, a)
InsertThenRemove ==
    /\ prev.op = "insert" /\ last.op = "remove"
    /\ prev.cell = last.cell /\ prev.agent = last.agent

\* C6: for every index state, cell and handle, insert(cell, agent) followed
\* by remove(cell, agent) restores the index to exactly its prior state.
C6_RoundTrip == InsertThenRemove => cells = prev.pre

\* C6 as amended: the round trip restores the prior state (bucket absent if
\* it was absent, the same handles in the same order otherwise) whenever the
\* handle was not already stored in that bucket before the insert.
C6_RoundTripWhenAbsent ==
    (InsertThenRemove /\ ~Stored(prev.pre, prev.cell, prev.agent))
        => cells = prev.pre

\* both cases of the round trip: into a vacant entry, and into a bucket that
\* holds another handle
C6_Witness ==
    /\ InsertThenRemove
    /\ ~Stored(prev.pre, prev.cell, prev.agent)
    /\ prev.cell \in DOMAIN prev.pre
    /\ cells = prev.pre

\* C8: after any sequence of insert and remove operations no key of the
\* mapping has an empty collection (a remove that empties a bucket deletes
\* the entry).
C8_NoEmptyBucket == \A c \in DOMAIN cells : Len(cells[c]) > 0

\* a remove has just emptied a bucket
C8_Witness ==
    /\ last.op = "remove"
    /\ Stored(last.pre, last.cell, last.agent)
    /\ last.cell \notin DOMAIN cells
    /\ DOMAIN cells # {}

\* C9: remove(cell, agent) for a handle that is not stored in the bucket of
\* cell (entry vacant, or occupied without that handle) leaves the whole
\* index unchanged; remove has no failing path.
C9_RemoveAbsentIsNoOp ==
    (last.op = "remove" /\ ~Stored(last.pre, last.cell, last.agent))
        => cells = last.pre

\* a remove of an absent handle from an occupied entry
C9_Witness ==
    /\ last.op = "remove"
    /\ last.cell \in DOMAIN last.pre
    /\ ~Stored(last.pre, last.cell, last.agent)
    /\ cells = last.pre

----------------------------------------------------------------------------
(* The tick phases in any order: spawns, position changes, detection        *)
(* passes, commit passes and queries.  A pass is the system together with   *)
(* the sync point that applies the commands it queued.                      *)

PhasePositions == {Pos(5, 5), Pos(25, 5)}

PhaseQueries == {<<Pos(0, 0), 12>>, <<Pos(5, 5), BOID_RADIUS>>,
                 <<Pos(25, 5), TEST_RADIUS>>}

InitPhases ==
    /\ Idle
    /\ last = NoOp
    /\ NoQuery

\* spawn_ship: (CellAssociation::new(), Transform::from_translation(position))
Spawn(position) ==
    /\ Cardinality(alive) < NumEntities
    /\ LET e == Cardinality(alive) + 1 IN
        /\ alive' = alive \cup {e}
        /\ translation' = [x \in alive \cup {e} |->
                              IF x = e THEN position ELSE translation[x]]
        /\ assoc' = [x \in alive \cup {e} |->
                        IF x = e THEN CellAssociation_new ELSE assoc[x]]
        /\ fresh' = fresh \cup {e}
        /\ last' = [NoOp EXCEPT !.op = "spawn"]
    /\ ResetQuery
    /\ prev' = NoOp
    /\ UNCHANGED <<boid, dirty, cmds, cells, ran, missed>>

SetPosition(e, position) ==
    /\ e \in alive
    /\ position # translation[e]
    /\ translation' = [translation EXCEPT ![e] = position]
    /\ last' = [NoOp EXCEPT !.op = "move"]
    /\ ResetQuery
    /\ prev' = NoOp
    /\ UNCHANGED <<boid, alive, assoc, dirty, cmds, cells, ran, missed, fresh>>

DetectPass ==
    /\ alive # {}
    /\ LET r == update_cell_association(alive, translation, assoc, dirty) IN
        /\ assoc' = r.assoc
        /\ dirty' = ApplyCommands(dirty, cmds \o r.cmds)
    /\ cmds' = <<>>
    /\ fresh' = fresh \cap dirty
    /\ last' = [NoOp EXCEPT !.op = "detect", !.first = fresh \ dirty]
    /\ ResetQuery
    /\ prev' = NoOp
    /\ UNCHANGED <<boid, alive, translation, cells, ran, missed>>

CommitPass ==
    /\ alive # {}
    /\ \E order \in Orders(dirty) :
        LET r == update_spatial_index(order, assoc, cells) IN
        /\ assoc' = r.assoc
        /\ cells' = r.cells
        /\ dirty' = ApplyCommands(dirty, cmds \o r.cmds)
        /\ last' = [NoOp EXCEPT !.op = "commit", !.pre = cells, !.nops = r.nops]
    /\ prev' = [NoOp EXCEPT !.op = last.op, !.nops = last.nops]
    /\ cmds' = <<>>
    /\ ResetQuery
    /\ UNCHANGED <<boid, alive, translation, ran, missed, fresh>>

Query(position, radius) ==
    /\ alive # {}
    /\ qpos' = position
    /\ qrad' = radius
    /\ emitted' = query_cells(position, radius)
    /\ last' = [NoOp EXCEPT !.op = "query",
                            !.visits = query(cells, position, radius)]
    /\ prev' = NoOp
    /\ UNCHANGED <<boid, alive, translation, assoc, dirty, cmds, cells, ran, missed,
                   fresh>>

NextPhases ==
    \/ \E position \in PhasePositions : Spawn(position)
    \/ \E e \in Entities, position \in PhasePositions : SetPosition(e, position)
    \/ DetectPass
    \/ CommitPass
    \/ \E q \in PhaseQueries : Query(q[1], q[2])

SpecPhases == InitPhases /\ [][NextPhases]_vars

----------------------------------------------------------------------------
(* The same phases over positions that reach the edge of the cell range *)

EdgePositions == {Pos(5, 5), FarPos}

NextEdge ==
    \/ \E position \in EdgePositions : Spawn(position)
    \/ \E e \in Entities, position \in EdgePositions : SetPosition(e, position)
    \/ DetectPass
    \/ CommitPass

SpecEdge == InitPhases /\ [][NextEdge]_vars

----------------------------------------------------------------------------
(* Properties of the tick phases *)

\* the buckets that hold a handle
BucketsOf(idx, e) == {c \in DOMAIN idx : e \in Range(idx[c])}

\* C1: at every phase boundary, every handle stored in the bucket of cell C
\* has a membership record with current_cell = C, every agent whose
\* current_cell is a real cell C is stored in bucket C, and no handle is in
\* more than one bucket.
C1_IndexMatchesMembership ==
    /\ \A c \in DOMAIN cells : \A h \in Range(cells[c]) :
           h \in alive /\ assoc[h].cell = c
    /\ \A e \in alive :
           assoc[e].cell # Unassigned => Stored(cells, assoc[e].cell, e)
    /\ \A e \in Entities : Cardinality(BucketsOf(cells, e)) <= 1

\* a commit pass has just moved an agent from one bucket to another while
\* another agent stayed where it was
C1_Witness ==
    /\ last.op = "commit"
    /\ \E e \in alive :
           /\ BucketsOf(last.pre, e) # {}
           /\ BucketsOf(last.pre, e) # BucketsOf(cells, e)
    /\ \E e \in alive :
           /\ BucketsOf(last.pre, e) # {}
           /\ BucketsOf(last.pre, e) = BucketsOf(cells, e)

\* C5: a commit pass that directly follows a commit pass (no position change
\* and no detection pass in between) executes no remove and no insert and
\* leaves the mapping, bucket contents and order included, as it was.
C5_SecondCommitIdle ==
    (last.op = "commit" /\ prev.op = "commit")
        => (last.nops = 0 /\ cells = last.pre)

\* the first of the two commit passes did mutate the index
C5_Witness ==
    /\ last.op = "commit" /\ prev.op = "commit"
    /\ prev.nops > 0
    /\ last.nops = 0
    /\ cells = last.pre

Occurrences(seq, h) == Cardinality({i \in DOMAIN seq : seq[i] = h})

\* C7: in every index state reached through the phases, query visits each
\* handle stored in a bucket of an emitted cell exactly once, and visits no
\* handle that is stored only in cells that query_cells does not emit.
C7_QueryVisitsStoredOnce ==
    last.op = "query" =>
        \A h \in Entities :
            Occurrences(last.visits, h) =
                IF \E c \in Range(emitted) : Stored(cells, c, h) THEN 1 ELSE 0

\* the scenario: agents committed at (5,5) and (25,5), query at (0,0) with
\* radius 12 yields the first and not the second
C7_Witness ==
    /\ last.op = "query" /\ qpos = Pos(0, 0) /\ qrad = 12
    /\ \E a, b \in alive :
        /\ translation[a] = Pos(5, 5) /\ Stored(cells, <<0, 0>>, a)
        /\ translation[b] = Pos(25, 5) /\ Stored(cells, <<1, 0>>, b)
        /\ last.visits = <<a>>

\* C10: the unassigned sentinel differs from every cell calc_cell produces,
\* so the first detection pass over a newly created agent marks it dirty.
C10_FirstDetectionMarks ==
    last.op = "detect" =>
        \A e \in last.first :
            /\ assoc[e].new_cell # Unassigned
            /\ e \in dirty

----------------------------------------------------------------------------
(* The program: Startup has spawned the ships, then Update runs tick after  *)
(* tick.  Within a tick the schedule orders only move_by_velocity after     *)
(* calc_acceleration and update_spatial_index after update_cell_association *)
(* (with the sync point the schedule puts between the two, since the first  *)
(* queues commands); every other order of the systems is admitted.  The     *)
(* commands still queued are applied when the schedule ends.                *)

SpawnPositions == {Pos(5, 5), Pos(25, 5), Pos(45, 5)}

Systems == {"calc", "move", "detect", "sync", "commit"}

\* squared planar distance within radius^2
Within(p, q, radius) ==
    LET dx == Val(p[1]) - Val(q[1])
        dz == Val(p[2]) - Val(q[2])
    IN  dx * dx + dz * dz <= radius * radius

Init ==
    /\ alive = Entities
    /\ translation \in [Entities -> SpawnPositions]
    /\ assoc = [e \in Entities |-> CellAssociation_new]
    /\ dirty = {}
    /\ cmds = <<>>
    /\ cells = EmptyIndex
    /\ ran = {}
    /\ missed = {}
    /\ fresh = Entities
    /\ last = NoOp
    /\ prev = NoOp
    /\ NoQuery
    /\ boid = NoBoid

\* calc_acceleration: one query per agent at its own translation; the
\* handler skips the agent itself
CalcAcceleration ==
    /\ "calc" \notin ran
    /\ missed' = {p \in alive \X alive :
                    /\ p[1] # p[2]
                    /\ Within(translation[p[1]], translation[p[2]], BOID_RADIUS)
                    /\ p[2] \notin Range(query(cells, translation[p[1]], BOID_RADIUS))}
    /\ ran' = ran \cup {"calc"}
    /\ last' = [NoOp EXCEPT !.op = "calc"]
    /\ UNCHANGED <<boid, alive, translation, assoc, dirty, cmds, cells, fresh, prev,
                   qpos, qrad, emitted>>

\* move_by_velocity: every translation advances by velocity * delta_seconds
\* (any of the positions, the present one included: time may be paused)
MoveByVelocity ==
    /\ "calc" \in ran /\ "move" \notin ran
    /\ translation' \in [Entities -> SpawnPositions]
    /\ ran' = ran \cup {"move"}
    /\ last' = [NoOp EXCEPT !.op = "move"]
    /\ UNCHANGED <<boid, alive, assoc, dirty, cmds, cells, missed, fresh, prev,
                   qpos, qrad, emitted>>

UpdateCellAssociation ==
    /\ "detect" \notin ran
    /\ LET r == update_cell_association(alive, translation, assoc, dirty) IN
        /\ assoc' = r.assoc
        /\ cmds' = cmds \o r.cmds
    /\ fresh' = fresh \cap dirty
    /\ ran' = ran \cup {"detect"}
    /\ last' = [NoOp EXCEPT !.op = "detect", !.first = fresh \ dirty]
    /\ UNCHANGED <<boid, alive, translation, dirty, cells, missed, prev,
                   qpos, qrad, emitted>>

\* the sync point between update_cell_association and update_spatial_index
ApplyDeferred ==
    /\ "detect" \in ran /\ "sync" \notin ran
    /\ dirty' = ApplyCommands(dirty, cmds)
    /\ cmds' = <<>>
    /\ ran' = ran \cup {"sync"}
    /\ last' = [NoOp EXCEPT !.op = "sync"]
    /\ UNCHANGED <<boid, alive, translation, assoc, cells, missed, fresh, prev,
                   qpos, qrad, emitted>>

UpdateSpatialIndex ==
    /\ "sync" \in ran /\ "commit" \notin ran
    /\ \E order \in Orders(dirty) :
        LET r == update_spatial_index(order, assoc, cells) IN
        /\ assoc' = r.assoc
        /\ cells' = r.cells
        /\ cmds' = cmds \o r.cmds
        /\ last' = [NoOp EXCEPT !.op = "commit", !.nops = r.nops]
    /\ ran' = ran \cup {"commit"}
    /\ UNCHANGED <<boid, alive, translation, dirty, missed, fresh, prev,
                   qpos, qrad, emitted>>

\* the schedule has run every system: the queued commands are applied and
\* the next tick begins
EndOfTick ==
    /\ ran = Systems
    /\ dirty' = ApplyCommands(dirty, cmds)
    /\ cmds' = <<>>
    /\ ran' = {}
    /\ missed' = {}
    /\ last' = [NoOp EXCEPT !.op = "end"]
    /\ UNCHANGED <<boid, alive, translation, assoc, cells, fresh, prev,
                   qpos, qrad, emitted>>

Next ==
    \/ CalcAcceleration
    \/ MoveByVelocity
    \/ UpdateCellAssociation
    \/ ApplyDeferred
    \/ UpdateSpatialIndex
    \/ EndOfTick

Spec == Init /\ [][Next]_vars

\* C2: within every tick the detection pass runs before the commit pass, the
\* commit pass before any neighbour query, and positions change only after
\* the queries.
C2_StrictTickOrder ==
    /\ "commit" \in ran => "detect" \in ran
    /\ "calc" \in ran => "commit" \in ran
    /\ "move" \in ran => "calc" \in ran

\* C4: whenever the steering phase has queried for a focal agent, every other
\* agent within BOID_RADIUS of its position was passed to the visitor.
C4_NoFalseNegative == missed = {}

----------------------------------------------------------------------------
(* Degenerate radii *)

\* C11: for every position and every radius <= 0, query_cells hands the
\* visitor at most one cell, and that cell is the one that holds position.
C11_DegenerateRadius ==
    (last.op = "query_cells" /\ qrad <= 0) =>
        /\ Len(emitted) <= 1
        /\ \A i \in DOMAIN emitted : emitted[i] = calc_cell(qpos)

\* what holds of radius = 0
ZeroRadiusSingleCell ==
    (last.op = "query_cells" /\ qrad = 0) =>
        /\ Len(emitted) <= 1
        /\ \A i \in DOMAIN emitted : emitted[i] = calc_cell(qpos)

----------------------------------------------------------------------------
(* SpecSteer: one iteration of calc_acceleration for one focal agent.  The  *)
(* index query hands candidates to the visitor one at a time; the agents    *)
(* lie on one line so that every distance taken is a whole number.          *)

MaxCandidates == 3

FocalEntity == 1

FocalVelocities == {Vec(0, 0), Vec(9, 0), Vec(-4, 0)}

CursorPositions == {Vec(40, 0), Vec(0, 0), Vec(-40, 0)}

\* the other agents the query can hand over: entity, position, velocity
Others ==
    { [entity |-> 2, translation |-> Vec(-5, 0), velocity |-> Vec(3, 0)],
      [entity |-> 3, translation |-> Vec(15, 0), velocity |-> Vec(-4, 0)],
      [entity |-> 4, translation |-> Vec(10, 0), velocity |-> Vec(0, 0)],
      [entity |-> 5, translation |-> Vec(20, 0), velocity |-> Vec(3, 0)],
      [entity |-> 6, translation |-> Vec(25, 0), velocity |-> Vec(3, 0)],
      [entity |-> 7, translation |-> Vec(0, 0), velocity |-> Vec(3, 0)] }

\* the focal agent is stored in the index too, so the query can hand it over
Candidates(b) ==
    Others \cup { [entity |-> b.entity, translation |-> b.translation,
                   velocity |-> b.velocity] }

InitSteer ==
    /\ alive = {} /\ translation = <<>> /\ assoc = <<>> /\ dirty = {}
    /\ cmds = <<>> /\ cells = EmptyIndex /\ ran = {} /\ missed = {}
    /\ fresh = {} /\ prev = NoOp /\ last = NoOp
    /\ NoQuery
    /\ \E v \in FocalVelocities, c \in CursorPositions :
          boid = [Boid_new(FocalEntity, Vec(0, 0), v) EXCEPT !.target = c]

\* the visitor closure is called with one candidate
VisitCandidate(c) ==
    /\ boid.stage = "scan"
    /\ Len(boid.log) < MaxCandidates
    /\ boid' = [visit_neighbour(boid, c.entity, c.translation, c.velocity)
                   EXCEPT !.log = Append(boid.log, c)]
    /\ UNCHANGED <<alive, translation, assoc, dirty, cmds, cells, ran, missed,
                   fresh, last, prev, qpos, qrad, emitted>>

\* the query has returned: the acceleration is stored
StoreAcceleration ==
    /\ boid.stage = "scan"
    /\ boid' = [boid EXCEPT !.acceleration = acceleration_of(boid, boid.target),
                            !.stage = "done"]
    /\ UNCHANGED <<alive, translation, assoc, dirty, cmds, cells, ran, missed,
                   fresh, last, prev, qpos, qrad, emitted>>

NextSteer ==
    \/ \E c \in Candidates(boid) : VisitCandidate(c)
    \/ StoreAcceleration

SpecSteer == InitSteer /\ [][NextSteer]_vars

\* C12: the stored acceleration of an agent never exceeds its maximum
\* steering force in magnitude.
C12_AccelerationBounded ==
    boid.stage = "done" => ~LengthAbove(boid.acceleration, MAX_FORCE)

\* what holds of the sum: four contributions, each of them limited
SumOfFourLimited ==
    boid.stage = "done" => ~LengthAbove(boid.acceleration, 4 * MAX_FORCE)

----------------------------------------------------------------------------
(* The sums against the distances of the candidates handed over *)

\* squared distance between the focal agent and a candidate (whole numbers)
Dist2(b, c) == Norm2(VSub(b.translation, c.translation).n)

\* d > R or d < epsilon
Skipped(b, c) ==
    \/ Dist2(b, c) > BOID_RADIUS * BOID_RADIUS
    \/ Dist2(b, c) * INV_EPSILON * INV_EPSILON < 1

InSeparation(b, c) == ~Skipped(b, c) /\ Dist2(b, c) < 10 * 10
InAlignment(b, c) == ~Skipped(b, c) /\ Dist2(b, c) < 20 * 20

\* the separation term of one candidate: the unit vector away from it,
\* divided by the distance
SeparationTerm(b, c) == VDiv(VSub(b.translation, c.translation), Dist2(b, c))

RECURSIVE ExpectedSums(_, _, _)
ExpectedSums(b, log, i) ==
    IF i = 0
    THEN [sep_sum |-> ZERO, sep_count |-> 0, align_sum |-> ZERO,
          align_count |-> 0, cohesion_sum |-> ZERO, cohesion_count |-> 0]
    ELSE LET r == ExpectedSums(b, log, i - 1)
             c == log[i]
             s == InSeparation(b, c)
             a == InAlignment(b, c)
         IN  [sep_sum |-> IF s THEN VAdd(r.sep_sum, SeparationTerm(b, c)) ELSE r.sep_sum,
              sep_count |-> IF s THEN r.sep_count + 1 ELSE r.sep_count,
              align_sum |-> IF a THEN VAdd(r.align_sum, c.velocity) ELSE r.align_sum,
              align_count |-> IF a THEN r.align_count + 1 ELSE r.align_count,
              cohesion_sum |-> IF a THEN VAdd(r.cohesion_sum, c.translation) ELSE r.cohesion_sum,
              cohesion_count |-> IF a THEN r.cohesion_count + 1 ELSE r.cohesion_count]

\* C13: a candidate at distance d is left out of every sum when d > R or
\* d < epsilon; otherwise it is in the separation sum exactly when d < 10 and
\* in the alignment and the cohesion sums exactly when d < 20.
C13_ThresholdsDecideSums ==
    boid.stage \in {"scan", "done"} =>
        LET r == ExpectedSums(boid, boid.log, Len(boid.log))
        IN  /\ boid.sep_sum = r.sep_sum /\ boid.sep_count = r.sep_count
            /\ boid.align_sum = r.align_sum /\ boid.align_count = r.align_count
            /\ boid.cohesion_sum = r.cohesion_sum
            /\ boid.cohesion_count = r.cohesion_count

\* neighbours at distances 5 and 15 have been handed over: the separation
\* counts the first only, alignment and cohesion count both
C13_Witness ==
    /\ boid.stage = "done"
    /\ Len(boid.log) = 2
    /\ Dist2(boid, boid.log[1]) = 5 * 5
    /\ Dist2(boid, boid.log[2]) = 15 * 15
    /\ boid.sep_count = 1 /\ boid.align_count = 2 /\ boid.cohesion_count = 2

Contributes(b, c) == InSeparation(b, c) \/ InAlignment(b, c)

NothingSummed(b) ==
    /\ b.sep_count = 0 /\ b.align_count = 0 /\ b.cohesion_count = 0
    /\ b.sep_sum = ZERO /\ b.align_sum = ZERO /\ b.cohesion_sum = ZERO

\* C14: when no candidate contributes to any sum, the three counts and sums
\* stay zero and the stored acceleration is exactly
\* steer(seek_target - position); the focal agent handed over by the query
\* is never added to its own sums.
C14_NoNeighbourSeeksOnly ==
    /\ (boid.stage = "done"
          /\ \A i \in DOMAIN boid.log : ~Contributes(boid, boid.log[i]))
       => /\ NothingSummed(boid)
          /\ boid.acceleration =
                 steer(boid, VSub(boid.target, boid.translation))
    /\ (boid.stage \in {"scan", "done"}
          /\ \A i \in DOMAIN boid.log : boid.log[i].entity = boid.entity)
       => NothingSummed(boid)

\* the query handed over the focal agent and one agent out of range, and the
\* acceleration stored is the steering toward the cursor, not zero
C14_Witness ==
    /\ boid.stage = "done"
    /\ Len(boid.log) = 2
    /\ boid.log[1].entity = boid.entity
    /\ boid.log[2].entity # boid.entity
    /\ ~Contributes(boid, boid.log[2])
    /\ NothingSummed(boid)
    /\ boid.acceleration # ZERO

----------------------------------------------------------------------------
(* The steps of the two membership passes *)

\* the handles stored in a bucket, none when the index has no such bucket
Range0(idx, cell) == IF cell \in DOMAIN idx THEN Range(idx[cell]) ELSE {}

\* what holds of a commit pass whatever the positions: every agent that
\* carries the marker ends up under new_cell, once, and nowhere else
CommitStoresUnderPending ==
    [][last'.op = "commit" =>
        \A e \in dirty :
            /\ assoc'[e].cell = assoc[e].new_cell
            /\ e \notin dirty'
            /\ BucketsOf(cells', e) = {assoc[e].new_cell}
            /\ Occurrences(cells'[assoc[e].new_cell], e) = 1]_vars

\* C15: the commit pass, for every dirty agent, removes it from the bucket
\* of its old cell (and removes it from no bucket when the old cell is the
\* sentinel), inserts it into the bucket of new_cell, sets cell = new_cell
\* and clears the marker; afterwards the agent is stored in the bucket of
\* new_cell exactly once and in no other bucket.
C15_CommitMovesDirtyAgents ==
    [][last'.op = "commit" =>
        \A e \in dirty :
            /\ assoc[e].cell = Unassigned => BucketsOf(cells, e) = {}
            /\ assoc[e].cell # assoc[e].new_cell
                   => e \notin Range0(cells', assoc[e].cell)
            /\ assoc'[e].cell = assoc[e].new_cell
            /\ e \notin dirty'
            /\ BucketsOf(cells', e) = {assoc[e].new_cell}
            /\ Occurrences(cells'[assoc[e].new_cell], e) = 1]_vars

\* the number of times each bucket holds a handle
StoredTimes(idx, e) == [c \in BucketsOf(idx, e) |-> Occurrences(idx[c], e)]

\* C16: the commit pass leaves the record (cell, new_cell) of every agent
\* that does not carry the marker, and the buckets that hold its handle, as
\* they were; the detection pass does not change the index.
C16_OnlyFlaggedAgentsTouched ==
    [][/\ last'.op = "commit" =>
            \A e \in alive \ dirty :
                /\ assoc'[e] = assoc[e]
                /\ StoredTimes(cells', e) = StoredTimes(cells, e)
       /\ last'.op = "detect" => cells' = cells]_vars

\* a commit pass has moved one of two agents (one remove, one insert) while
\* the other, stored and not flagged, stayed in its bucket
C16_Witness ==
    /\ last.op = "commit"
    /\ last.nops = 2
    /\ Cardinality(alive) = 2
    /\ \A e \in alive : BucketsOf(last.pre, e) # {}
    /\ \E e \in alive : BucketsOf(last.pre, e) # BucketsOf(cells, e)
    /\ \E e \in alive : BucketsOf(last.pre, e) = BucketsOf(cells, e)

\* C17: the detection pass leaves the record of an agent that already
\* carries the marker as it was, even when its translation has changed since
\* it was marked, so the next commit stores the agent under the new_cell
\* computed when it was marked; for every agent without the marker new_cell
\* becomes the cell of its current translation.
C17_DetectionSkipsDirty ==
    [][/\ last'.op = "detect" =>
            \A e \in alive :
                IF e \in dirty THEN assoc'[e] = assoc[e]
                ELSE assoc'[e].new_cell = calc_cell(translation[e])
       /\ last'.op = "commit" =>
            \A e \in dirty : BucketsOf(cells', e) = {assoc[e].new_cell}]_vars

\* a detection pass ran over a flagged agent that had moved to another cell,
\* and the commit right after it stored the agent under the older cell
C17_Witness ==
    /\ last.op = "commit"
    /\ prev.op = "detect"
    /\ \E e \in alive :
          /\ BucketsOf(cells, e) = {assoc[e].cell}
          /\ BucketsOf(last.pre, e) = {}
          /\ assoc[e].cell # calc_cell(translation[e])

\* what holds of a detection pass whatever the positions
DetectionMarksIffCellDiffers ==
    [][last'.op = "detect" =>
        \A e \in alive \ dirty :
            e \in dirty' <=> calc_cell(translation[e]) # assoc[e].cell]_vars

\* C18: the detection pass marks an agent without the marker exactly when
\* the cell of its translation differs from its cell; and once the cell of
\* an agent is a real cell it never is the unassigned sentinel again.
C18_MarksIffCellDiffers ==
    [][/\ last'.op = "detect" =>
            \A e \in alive \ dirty :
                e \in dirty' <=> calc_cell(translation[e]) # assoc[e].cell
       /\ \A e \in alive :
            assoc[e].cell # Unassigned => assoc'[e].cell # Unassigned]_vars

----------------------------------------------------------------------------
(* Between the passes *)

\* C19: once the queued marker insertions and removals have been applied,
\* every agent without the marker has new_cell = cell.
C19_CleanMeansSettled ==
    cmds = <<>> =>
        \A e \in alive \ dirty : assoc[e].new_cell = assoc[e].cell

\* after a detection pass one agent is flagged for a move and another, which
\* has a real cell, is not
C19_Witness ==
    /\ last.op = "detect"
    /\ cmds = <<>>
    /\ \E e \in dirty : assoc[e].new_cell # assoc[e].cell
    /\ \E e \in alive \ dirty :
          assoc[e].cell # Unassigned /\ assoc[e].cell = calc_cell(translation[e])

----------------------------------------------------------------------------
(* Progress.  The Update schedule runs every frame, so a pass that would    *)
(* change something is not put off forever.                                 *)

SpecPhasesFair ==
    SpecPhases /\ WF_vars(DetectPass) /\ WF_vars(CommitPass)

SpecEdgeFair ==
    SpecEdge /\ WF_vars(DetectPass) /\ WF_vars(CommitPass)

\* every marker is eventually removed
MarkerEventuallyCleared ==
    \A e \in Entities : (e \in dirty) ~> (e \notin dirty)

\* C20: under repeated passes every agent that has been marked eventually
\* has its marker removed, and every agent whose translation stops changing
\* is eventually stored in exactly the bucket of the cell of that
\* translation, and stays there.
C20_EventuallyStored ==
    /\ \A e \in Entities : (e \in dirty) ~> (e \notin dirty)
    /\ \A e \in Entities : \A p \in PhasePositions \cup EdgePositions :
          <>[](e \in alive /\ translation[e] = p)
              => <>[](BucketsOf(cells, e) = {calc_cell(p)})

====
